---- MODULE Spec2Model ----
(***************************************************************************)
(* A model of the cv_parser job pipeline: the asynchronous submission      *)
(* routes, the background runs of ParserService, the job-status poll, the  *)
(* synchronous parse routes, the parsed_cvs table seen through SQLAlchemy  *)
(* sessions, and the FileProcessor / FileService extraction path with its  *)
(* content cache.                                                          *)
(***************************************************************************)
EXTENDS Integers, Sequences, FiniteSets, TLC

(***************************************************************************)
(* Bounds of the model.                                                    *)
(***************************************************************************)
\* number of request slots (HTTP requests the model follows)
MaxReqs == 2
\* number of distinct UUID values uuid4() can return in the model
NumIds == 2
\* capacity of the content cache in the model (settings.CACHE_MAX_SIZE)
CacheMaxSize == 2
\* seconds that pass in one step of the clock
TickSeconds == 1800

(***************************************************************************)
(* Program constants.                                                      *)
(***************************************************************************)
MAX_FILE_SIZE_MB == 10
CACHE_TTL_SECONDS == 3600
BytesPerMB == 1048576
MIN_TEXT_LENGTH == 10
INPUT_TEXT_LIMIT == 5000

Reqs == 1..MaxReqs
Ids == 1..NumIds

Min(a, b) == IF a < b THEN a ELSE b

(***************************************************************************)
(* Texts.  A text is known by its length and by the length of text.strip() *)
(* together with a tag that tells texts of equal length apart.             *)
(***************************************************************************)
Text(tag, len, strip) == [tag |-> tag, len |-> len, strip |-> strip]
EmptyText == Text("", 0, 0)
\* the parser of the handler raised instead of returning documents
ParserRaises == Text("raises", -1, -1)

\* FileProcessor.clean_text: tags, repeated newlines and quotes removed, then
\* text.strip(); what is left has no leading or trailing whitespace
clean_text(t) == Text(t.tag, t.strip, t.strip)

\* text[:5000]
Truncate(t) == Text(t.tag, Min(t.len, INPUT_TEXT_LIMIT), Min(t.strip, INPUT_TEXT_LIMIT))

\* `not text or len(text.strip()) < 10`
TooShortUntrimmed(t) == t.len < MIN_TEXT_LENGTH

TooShort(t) == t.len = 0 \/ t.strip < MIN_TEXT_LENGTH

(***************************************************************************)
(* Exceptions: the class (by its error_code) and str(e) as a sequence of   *)
(* message parts, so that wrapping an exception keeps the inner message.   *)
(***************************************************************************)
NoExc == [kind |-> "none", msg |-> <<>>]
Exc(kind, msg) == [kind |-> kind, msg |-> msg]
\* raise Wrapper(f"<prefix>: {str(e)}")
Wrap(kind, prefix, e) == Exc(kind, <<prefix>> \o e.msg)

\* BaseAPIException subclasses: status_code of each class
status_code(kind) ==
    CASE kind = "UnsupportedFileTypeError" -> 400
      [] kind = "FileSizeLimitError" -> 413
      [] kind = "OpenAIRateLimitError" -> 429
      [] kind = "RecordNotFoundError" -> 404
      [] kind = "ValidationError" -> 422
      [] kind = "MissingRequiredFieldError" -> 400
      [] OTHER -> 500

\* BaseAPIException subclasses: error_code of each class
error_code(kind) ==
    CASE kind = "FileProcessingError" -> "FILE_PROCESSING_ERROR"
      [] kind = "UnsupportedFileTypeError" -> "UNSUPPORTED_FILE_TYPE"
      [] kind = "FileSizeLimitError" -> "FILE_SIZE_LIMIT_EXCEEDED"
      [] kind = "OpenAIError" -> "OPENAI_ERROR"
      [] kind = "OpenAIRateLimitError" -> "OPENAI_RATE_LIMIT"
      [] kind = "OpenAIInvalidResponseError" -> "OPENAI_INVALID_RESPONSE"
      [] kind = "ParserError" -> "PARSER_ERROR"
      [] kind = "DatabaseError" -> "DATABASE_ERROR"
      [] kind = "RecordNotFoundError" -> "RECORD_NOT_FOUND"
      [] kind = "ValidationError" -> "VALIDATION_ERROR"
      [] OTHER -> kind

(***************************************************************************)
(* Files.  The bytes of an upload are known by their length, by the type   *)
(* libmagic sniffs from them and by the text each parser that can read     *)
(* them extracts (a parser not listed raises on them); the filename is     *)
(* the sequence of its dot-separated parts.                                *)
(***************************************************************************)
Content(tag, len, magic, text) == [tag |-> tag, len |-> len, magic |-> magic, text |-> text]
File(content, filename) == [type |-> "file", content |-> content, filename |-> filename]

SmallLen == 2048
OverLimitLen == MAX_FILE_SIZE_MB * BytesPerMB + 1

NoParser == [parser \in {} |-> EmptyText]

C_pdf == Content("pdf", SmallLen, "application/pdf", "PyMuPDFParser" :> Text("cv", 40, 40))
C_zip == Content("zip", SmallLen, "application/zip", NoParser)
\* a LaTeX source: readable as plain text and, differently, as markup
C_tex == Content("tex", SmallLen, "text/x-tex",
                 "TextParser" :> Text("tex as text", 60, 60)
                 @@ "BS4HTMLParser" :> Text("tex as markup", 50, 50))
C_big == Content("big", OverLimitLen, "application/pdf", "PyMuPDFParser" :> Text("cv", 40, 40))
C_png == Content("png", SmallLen, "image/png", NoParser)
C_short == Content("short", SmallLen, "text/plain", "TextParser" :> Text("hi", 12, 4))
\* a damaged binary: sniffed as a byte stream, not decodable as text
C_doc == Content("doc", SmallLen, "application/octet-stream", NoParser)

Files ==
    { File(C_pdf, <<"cv", "pdf">>),
      File(C_zip, <<"a", "zip">>),
      File(C_tex, <<"cv", "TXT">>),
      File(C_tex, <<"cv", "html">>),
      File(C_big, <<"big", "pdf">>),
      File(C_png, <<"scan">>),
      File(C_short, <<"s", "txt">>),
      File(C_doc, <<"old", "doc">>) }

\* request texts; ParseTextRequest.text has min_length=10
TextInput(t) == [type |-> "text", text |-> t]
Texts == { TextInput(Text("cv", 40, 40)), TextInput(Text("blank", 12, 4)) }

NoInput == [type |-> "none"]

\* FileProcessor.SUPPORTED_HANDLERS keys
supported_mimetypes ==
    { "application/pdf", "text/plain", "text/plain; charset=utf-8",
      "text/plain; charset=ascii", "application/octet-stream", "text/html",
      "text/html; charset=utf-8", "application/xhtml+xml", "application/msword",
      "application/doc", "application/vnd.ms-word",
      "application/vnd.openxmlformats-officedocument.wordprocessingml.document",
      "application/vnd.ms-word.document.macroEnabled.12", "text/rtf",
      "application/rtf", "text/csv", "application/csv",
      "text/tab-separated-values", "application/xml", "text/xml", "image/jpeg",
      "image/jpg", "image/png", "image/webp", "image/gif" }

\* str.lower() on the filename parts the model uses
Lower(s) ==
    CASE s = "TXT" -> "txt"
      [] s = "PDF" -> "pdf"
      [] OTHER -> s

NoMime == "None"

\* FileProcessor._guess_mimetype_from_extension
guess_mimetype_from_extension(filename) ==
    IF Len(filename) < 2
    THEN NoMime
    ELSE LET extension == Lower(filename[Len(filename)])
         IN  CASE extension = "pdf" -> "application/pdf"
               [] extension = "txt" -> "text/plain"
               [] extension = "html" -> "text/html"
               [] extension = "htm" -> "text/html"
               [] extension = "doc" -> "application/msword"
               [] extension = "docx" ->
                    "application/vnd.openxmlformats-officedocument.wordprocessingml.document"
               [] extension = "rtf" -> "text/rtf"
               [] extension = "csv" -> "text/csv"
               [] extension = "xml" -> "application/xml"
               [] extension = "xhtml" -> "application/xhtml+xml"
               [] extension = "jpg" -> "image/jpeg"
               [] extension = "jpeg" -> "image/jpeg"
               [] extension = "png" -> "image/png"
               [] extension = "webp" -> "image/webp"
               [] extension = "gif" -> "image/gif"
               [] OTHER -> NoMime

\* the outcome of a call: the exception it raised (NoExc if none) and its value
Raised(e) == [exc |-> e, mime |-> NoMime, text |-> EmptyText]
Returned(text, mime) == [exc |-> NoExc, mime |-> mime, text |-> text]

\* a detection that trusts the filename's extension before the sniffed type
guess_mimetype_extension_first(content, filename) ==
    LET extension_mime == guess_mimetype_from_extension(filename)
    IN  IF Len(filename) > 0 /\ extension_mime # NoMime
           /\ extension_mime \in supported_mimetypes
        THEN Returned(EmptyText, extension_mime)
        ELSE IF content.magic \in supported_mimetypes
        THEN Returned(EmptyText, content.magic)
        ELSE Raised(Exc("UnsupportedFileTypeError", <<"Unsupported file type">>))

\* FileProcessor.guess_mimetype
guess_mimetype(content, filename) ==
    IF content.magic \in supported_mimetypes
    THEN Returned(EmptyText, content.magic)
    ELSE LET extension_mime == guess_mimetype_from_extension(filename)
         IN  IF Len(filename) > 0 /\ extension_mime # NoMime
                /\ extension_mime \in supported_mimetypes
             THEN Returned(EmptyText, extension_mime)
             ELSE Raised(Exc("UnsupportedFileTypeError", <<"Unsupported file type">>))

\* FileProcessor.SUPPORTED_HANDLERS: the parser of each supported type
handler_of(mime_type) ==
    CASE mime_type = "application/pdf" -> "PyMuPDFParser"
      [] mime_type \in {"text/plain", "text/plain; charset=utf-8",
                        "text/plain; charset=ascii", "application/octet-stream",
                        "text/csv", "application/csv", "text/tab-separated-values"}
           -> "TextParser"
      [] mime_type \in {"text/html", "text/html; charset=utf-8",
                        "application/xhtml+xml", "application/xml", "text/xml"}
           -> "BS4HTMLParser"
      [] mime_type \in {"application/msword", "application/doc",
                        "application/vnd.ms-word",
                        "application/vnd.openxmlformats-officedocument.wordprocessingml.document",
                        "application/vnd.ms-word.document.macroEnabled.12"}
           -> "CustomWordParser"
      [] mime_type \in {"text/rtf", "application/rtf"} -> "RTFParser"
      [] OTHER -> "None"

\* the PDF, Word and RTF parsers catch their own failures and yield a
\* document carrying the failure message
ErrorDocument == Text("Failed to parse", 60, 60)

\* self.parser.parse(blob) joined: the text the type's parser reads from the
\* bytes; on bytes it cannot read, the failure document of a catching
\* parser, or ParserRaises
parse_blob(content, mime_type) ==
    IF handler_of(mime_type) \in DOMAIN content.text
    THEN content.text[handler_of(mime_type)]
    ELSE IF handler_of(mime_type) \in {"PyMuPDFParser", "CustomWordParser", "RTFParser"}
    THEN ErrorDocument
    ELSE ParserRaises

\* FileProcessor.is_image_format: mime_type.startswith("image/")
is_image_format(mime_type) ==
    mime_type \in {"image/jpeg", "image/jpg", "image/png", "image/webp", "image/gif"}

\* FileProcessor.validate_file_size: size_mb > max_file_size_mb
validate_file_size(content) ==
    IF content.len > MAX_FILE_SIZE_MB * BytesPerMB
    THEN Exc("FileSizeLimitError", <<"File size exceeds maximum limit">>)
    ELSE NoExc

\* FileProcessor.extract_text_from_content
FileProcessor_extract_text_from_content(content, filename) ==
    IF validate_file_size(content) # NoExc
    THEN Raised(validate_file_size(content))
    ELSE LET guessed == guess_mimetype(content, filename)
         IN  IF guessed.exc # NoExc
             THEN Raised(guessed.exc)
             ELSE IF is_image_format(guessed.mime)
             THEN Returned(EmptyText, guessed.mime)
             ELSE IF parse_blob(content, guessed.mime) = ParserRaises
             THEN Raised(Exc("FileProcessingError",
                             <<"Failed to process file", "parser error">>))
             ELSE Returned(clean_text(parse_blob(content, guessed.mime)), guessed.mime)

\* the dictionary FileService returns for an extraction
ExtractionResult(out, filename, content, from_cache) ==
    [content |-> out.text,
     filename |-> filename,
     mime_type |-> out.mime,
     is_image |-> is_image_format(out.mime),
     raw_bytes |-> IF is_image_format(out.mime) THEN content.tag ELSE "None",
     from_cache |-> from_cache]
NoExtraction == [mime_type |-> NoMime]

\* FileService.extract_text_from_content (the path of the background run):
\* no cache; every exception becomes a FileProcessingError
FileService_extract_text_from_content(content, filename) ==
    LET out == FileProcessor_extract_text_from_content(content, filename)
    IN  IF out.exc # NoExc
        THEN [exc |-> Wrap("FileProcessingError", "Failed to extract text", out.exc),
              result |-> NoExtraction]
        ELSE [exc |-> NoExc,
              result |-> ExtractionResult(out, filename, content, "absent")]

(***************************************************************************)
(* The parsed_cvs table.  A row holds the columns the pipeline writes.     *)
(***************************************************************************)
NoneText == Text("None", 0, 0)
NoneName == <<>>
NoneStr == "None"
NoneInt == 0 - 1
EmptyData == "{}"

Row(status, parsed_data, error_message, file_name, input_text, mime, model, tokens) ==
    [status |-> status, parsed_data |-> parsed_data, error_message |-> error_message,
     file_name |-> file_name, input_text |-> input_text,
     file_mime_type |-> mime, openai_model |-> model, tokens_used |-> tokens]
NoRow == [status |-> "absent"]

(***************************************************************************)
(* The LLM call (OpenAIService.parse_cv): an opaque collaborator that      *)
(* returns a JSON object with its _metadata, or raises one of three kinds. *)
(* A JSON object that fails the pydantic validation is kept as it is, so   *)
(* the empty object {} is a possible return value.                         *)
(***************************************************************************)
AZURE_OPENAI_DEPLOYMENT == "gpt-5-mini-cv-parse"
LLMReturn(data, tokens) ==
    [exc |-> NoExc, data |-> data,
     metadata |-> [deployment |-> AZURE_OPENAI_DEPLOYMENT, tokens_used |-> tokens]]
LLMRaise(e) == [exc |-> e, data |-> EmptyData, metadata |-> [deployment |-> NoneStr]]
NoLLM == [exc |-> NoExc, data |-> "unset", metadata |-> [deployment |-> NoneStr]]

parse_cv_outcomes ==
    { LLMReturn("cv_A", 1200),
      LLMReturn(EmptyData, 0),
      LLMRaise(Exc("OpenAIRateLimitError", <<"Azure OpenAI rate limit exceeded">>)),
      LLMRaise(Exc("OpenAIInvalidResponseError", <<"OpenAI returned invalid JSON">>)),
      LLMRaise(Exc("OpenAIError", <<"Azure OpenAI API error">>)) }

\* metadata.get(key): None when the key is absent
metadata_get(metadata, key) ==
    IF key \in DOMAIN metadata THEN metadata[key] ELSE NoneStr

(***************************************************************************)
(* State.                                                                  *)
(***************************************************************************)
VARIABLES
    db,        \* committed rows of parsed_cvs, by primary key
    req,       \* per request slot: the request, its handler's position and
               \* locals, and the background run it scheduled
    lastPoll,  \* what the latest GET /job/{job_id} returned
    cache,     \* FileService.cache, entries in least-recently-used-first order
    call       \* the latest direct call of a component, with what it returned

vars == <<db, req, lastPoll, cache, call>>

NoResp == [status_code |-> 0, error_code |-> "none", detail |-> <<>>, job_id |-> 0]
Resp(code, error, detail, id) ==
    [status_code |-> code, error_code |-> error, detail |-> detail, job_id |-> id]
\* raise HTTPException(status_code=code, detail=detail)
HTTPException(code, detail) == Resp(code, "HTTPException", detail, 0)

NoPoll == [status_code |-> 0, status |-> "none"]

NoCall == [fn |-> "none"]

IdleReq ==
    [kind |-> "none", input |-> NoInput, job_id |-> 0, pc |-> "idle",
     resp |-> NoResp, session |-> NoRow, bg |-> "none",
     extraction |-> NoExtraction, llm |-> NoLLM, exc |-> NoExc, steps |-> <<>>,
     outcome |-> "none", write_failed |-> FALSE]

Init ==
    /\ db = [i \in Ids |-> NoRow]
    /\ req = [r \in Reqs |-> IdleReq]
    /\ lastPoll = NoPoll
    /\ cache = <<>>
    /\ call = NoCall

\* request slots are taken in the order the requests arrive
Arrives(r) == req[r].pc = "idle" /\ \A q \in Reqs : q < r => req[q].pc # "idle"

\* another open session has flushed a row with this primary key and has not
\* committed it yet: an INSERT of the same key waits for that transaction
PendingElsewhere(r, id) ==
    \E q \in Reqs \ {r} : req[q].job_id = id /\ req[q].session # NoRow

(***************************************************************************)
(* ParserRepository.                                                       *)
(***************************************************************************)
\* a create that replaces the row its primary key names (an upsert)
repository_upsert(rows, id, row, dbok) ==
    IF ~dbok
    THEN [exc |-> Exc("DatabaseError", <<"Failed to create parsed CV", "OperationalError">>),
          row |-> NoRow]
    ELSE [exc |-> NoExc, row |-> row]

\* ParserRepository.create: session.add + flush, an INSERT; a row with the
\* same primary key makes the flush raise, which create wraps in DatabaseError.
\* Gives the exception raised, and the row the session holds afterwards.
repository_create(rows, id, row, dbok) ==
    IF ~dbok
    THEN [exc |-> Exc("DatabaseError", <<"Failed to create parsed CV", "OperationalError">>),
          row |-> NoRow]
    ELSE IF rows[id] # NoRow
    THEN [exc |-> Exc("DatabaseError", <<"Failed to create parsed CV", "IntegrityError">>),
          row |-> NoRow]
    ELSE [exc |-> NoExc, row |-> row]

\* an update_status that flushes the row without the new status
update_status_unwritten(rows, id, status, error_message, dbok) ==
    IF ~dbok
    THEN [exc |-> Exc("DatabaseError", <<"Failed to update parsed CV">>),
          row |-> NoRow]
    ELSE IF rows[id] = NoRow
    THEN [exc |-> Exc("RecordNotFoundError", <<"Parsed CV not found">>),
          row |-> NoRow]
    ELSE [exc |-> NoExc, row |-> rows[id]]

\* ParserRepository.update_status: get_by_id, set status and error_message, flush
update_status(rows, id, status, error_message, dbok) ==
    IF ~dbok
    THEN [exc |-> Exc("DatabaseError", <<"Failed to update parsed CV">>),
          row |-> NoRow]
    ELSE IF rows[id] = NoRow
    THEN [exc |-> Exc("RecordNotFoundError", <<"Parsed CV not found">>),
          row |-> NoRow]
    ELSE [exc |-> NoExc,
          row |-> [rows[id] EXCEPT !.status = status,
                                   !.error_message = error_message]]

(***************************************************************************)
(* ParserService.create_placeholder_job                                    *)
(***************************************************************************)
create_placeholder_job(rows, job_id, file_name, dbok) ==
    LET created == repository_create(rows, job_id,
                       Row("processing", EmptyData, <<>>, file_name, NoneText,
                           NoneStr, NoneStr, NoneInt), dbok)
    IN  IF created.exc # NoExc
        THEN [exc |-> Wrap("ParserError", "Failed to create job", created.exc),
              row |-> NoRow]
        ELSE created

(***************************************************************************)
(* POST /parser/parse-file-async and /parser/parse-text-async              *)
(***************************************************************************)
ParseModes == {"basic", "advanced", "full"}

\* uuid4(): a value no row and no open request holds or, on a collision, one
\* that is in use.  Unused values are interchangeable, so the least one stands
\* for them all.
InUse(id) == db[id] # NoRow \/ \E q \in Reqs : req[q].job_id = id
uuid4 ==
    {id \in Ids : InUse(id)}
    \cup {id \in Ids : ~InUse(id) /\ \A other \in Ids : ~InUse(other) => id <= other}

\* `file.filename or "unknown"`
upload_name(f) == IF Len(f.filename) = 0 THEN <<"unknown">> ELSE f.filename

\* the route up to and including create_placeholder_job: the placeholder is
\* flushed in the request's session, not yet committed
AsyncCreate(r, kind, input, id, file_name, dbok) ==
    /\ Arrives(r)
    /\ ~PendingElsewhere(r, id)
    /\ LET placed == create_placeholder_job(db, id, file_name, dbok)
       IN  IF placed.exc # NoExc
           THEN \* except Exception: HTTP 500; get_session rolls the session back
                req' = [req EXCEPT ![r] =
                          [@ EXCEPT !.kind = kind, !.input = input,
                                    !.pc = "responded", !.exc = placed.exc,
                                    !.resp = HTTPException(500, <<"Internal server error">>)]]
           ELSE req' = [req EXCEPT ![r] =
                          [@ EXCEPT !.kind = kind, !.input = input, !.job_id = id,
                                    !.pc = "created", !.session = placed.row]]
    /\ UNCHANGED <<db, lastPoll, cache, call>>

parse_file_async_create(r) ==
    \E f \in Files, mode \in ParseModes, id \in uuid4, dbok \in BOOLEAN :
        IF mode \notin {"basic", "advanced"}
        THEN \* the HTTPException(400) raised inside the try is caught by
             \* `except Exception` and answered with HTTP 500
             /\ Arrives(r)
             /\ req' = [req EXCEPT ![r] =
                          [@ EXCEPT !.kind = "parse_file_async", !.input = f,
                                    !.pc = "responded",
                                    !.exc = Exc("HTTPException", <<"Invalid parse_mode">>),
                                    !.resp = HTTPException(500, <<"Internal server error">>)]]
             /\ UNCHANGED <<db, lastPoll, cache, call>>
        ELSE AsyncCreate(r, "parse_file_async", f, id, upload_name(f), dbok)

parse_text_async_create(r) ==
    \E t \in Texts, id \in uuid4, dbok \in BOOLEAN :
        AsyncCreate(r, "parse_text_async", t, id, NoneName, dbok)

\* a route that schedules the run without committing the placeholder
async_commit_skipped(r) ==
    /\ req[r].pc = "created"
    /\ req' = [req EXCEPT ![r] = [@ EXCEPT !.pc = "committed", !.session = NoRow]]
    /\ UNCHANGED <<db, lastPoll, cache, call>>

\* await db.commit(): the placeholder becomes visible to every other session
async_commit(r) ==
    /\ req[r].pc = "created"
    /\ \E dbok \in BOOLEAN :
         IF dbok
         THEN /\ db' = [db EXCEPT ![req[r].job_id] = req[r].session]
              /\ req' = [req EXCEPT ![r] =
                           [@ EXCEPT !.pc = "committed", !.session = NoRow]]
         ELSE /\ db' = db
              /\ req' = [req EXCEPT ![r] =
                           [@ EXCEPT !.pc = "responded", !.session = NoRow,
                                     !.job_id = 0,
                                     !.exc = Exc("SQLAlchemyError", <<"commit failed">>),
                                     !.resp = HTTPException(500, <<"Internal server error">>)]]
    /\ UNCHANGED <<lastPoll, cache, call>>

\* background_tasks.add_task(...) and return AsyncJobResponse: the task runs
\* once the response has been sent
async_schedule_and_respond(r) ==
    /\ req[r].pc = "committed"
    /\ req' = [req EXCEPT ![r] =
                 [@ EXCEPT !.pc = "responded", !.bg = "queued",
                           !.resp = Resp(200, "none", <<>>, req[r].job_id)]]
    /\ UNCHANGED <<db, lastPoll, cache, call>>

(***************************************************************************)
(* GET /parser/job/{job_id}                                                *)
(***************************************************************************)
\* ParserService.get_parse_result through get_job_status; a client polls the
\* job ids it was given
get_job_status(r) ==
    /\ req[r].kind \in {"parse_file_async", "parse_text_async"}
    /\ req[r].pc = "responded"
    /\ req[r].resp.status_code = 200
    /\ LET id == req[r].job_id
       IN  lastPoll' = IF db[id] = NoRow
                       THEN [status_code |-> 404, status |-> "none"]
                       ELSE [status_code |-> 200, status |-> db[id].status]
    /\ UNCHANGED <<db, req, cache, call>>

(***************************************************************************)
(* ParserService.process_file_background / process_text_background         *)
(***************************************************************************)
IsAsync(r) == req[r].kind \in {"parse_file_async", "parse_text_async"}

\* the background task runs after the response has been sent
Running(r, at) == IsAsync(r) /\ req[r].pc = "responded" /\ req[r].bg = at

\* an exception that ends the run where it was raised, with no except block
FailUnhandled(r, e, step) ==
    req' = [req EXCEPT ![r] =
              [@ EXCEPT !.bg = "returned", !.outcome = "returned", !.exc = e,
                        !.session = NoRow, !.llm = NoLLM, !.steps = Append(@, step)]]

\* an exception raised inside the outer try: control goes to the except block
Fail(r, e, step) ==
    req' = [req EXCEPT ![r] =
              [@ EXCEPT !.bg = "failing", !.exc = e, !.session = NoRow,
                        !.llm = NoLLM, !.steps = Append(@, step)]]

\* the text the run sends to the LLM and stores as input_text
RunText(r) ==
    IF req[r].kind = "parse_file_async"
    THEN req[r].extraction.content
    ELSE req[r].input.text

\* file_service.extract_text_from_content(file_content, file_name)
process_file_background_extract(r) ==
    /\ Running(r, "queued")
    /\ req[r].kind = "parse_file_async"
    /\ LET out == FileService_extract_text_from_content(
                      req[r].input.content, upload_name(req[r].input))
       IN  IF out.exc # NoExc
           THEN Fail(r, out.exc, "extract")
           ELSE req' = [req EXCEPT ![r] =
                          [@ EXCEPT !.bg = "extracted", !.extraction = out.result,
                                    !.steps = Append(@, "extract")]]
    /\ UNCHANGED <<db, lastPoll, cache, call>>

\* `if not extracted_text or len(extracted_text.strip()) < 10`
process_file_background_validate(r) ==
    /\ Running(r, "extracted")
    /\ IF TooShort(req[r].extraction.content)
       THEN Fail(r, Exc("ValidationError", <<"Extracted text is too short to parse">>),
                 "validate")
       ELSE req' = [req EXCEPT ![r] =
                      [@ EXCEPT !.bg = "validated", !.steps = Append(@, "validate")]]
    /\ UNCHANGED <<db, lastPoll, cache, call>>

\* `if not text or len(text.strip()) < 10`
process_text_background_validate(r) ==
    /\ Running(r, "queued")
    /\ req[r].kind = "parse_text_async"
    /\ IF TooShort(req[r].input.text)
       THEN Fail(r, Exc("ValidationError", <<"Text is too short to parse">>),
                 "validate")
       ELSE req' = [req EXCEPT ![r] =
                      [@ EXCEPT !.bg = "validated", !.steps = Append(@, "validate")]]
    /\ UNCHANGED <<db, lastPoll, cache, call>>

\* parsed_result = await self.openai_service.parse_cv(...)
background_parse_cv(r) ==
    /\ Running(r, "validated")
    /\ \E out \in parse_cv_outcomes :
         IF out.exc # NoExc
         THEN Fail(r, out.exc, "llm")
         ELSE req' = [req EXCEPT ![r] =
                        [@ EXCEPT !.bg = "parsed", !.llm = out,
                                  !.steps = Append(@, "llm")]]
    /\ UNCHANGED <<db, lastPoll, cache, call>>

\* a success block that sets the status and leaves the parsed data unset
SuccessRowStatusOnly(r, dbok) ==
    update_status(db, req[r].job_id, "success", <<>>, dbok)

\* the row the success block builds in its session: update_status(success),
\* then the parsed data and the metadata set on the record, then flush
SuccessRow(r, dbok) ==
    LET updated == update_status(db, req[r].job_id, "success", <<>>, dbok)
        metadata == req[r].llm.metadata
    IN  IF updated.exc # NoExc
        THEN updated
        ELSE [exc |-> NoExc,
              row |-> [updated.row EXCEPT
                         !.parsed_data = req[r].llm.data,
                         !.input_text = Truncate(RunText(r)),
                         !.file_mime_type =
                             IF req[r].kind = "parse_file_async"
                             THEN req[r].extraction.mime_type
                             ELSE @,
                         !.openai_model = metadata_get(metadata, "model"),
                         !.tokens_used = metadata_get(metadata, "tokens_used")]]

\* `async with db_manager.get_session() as session:` body of the success block;
\* what it flushes stays private to the session until the commit
background_success_flush(r) ==
    /\ Running(r, "parsed")
    /\ \E dbok \in BOOLEAN :
         LET flushed == SuccessRow(r, dbok)
         IN  IF flushed.exc # NoExc
             THEN Fail(r, flushed.exc, "success_write")
             ELSE req' = [req EXCEPT ![r] =
                            [@ EXCEPT !.bg = "success_flushed",
                                      !.session = flushed.row]]
    /\ UNCHANGED <<db, lastPoll, cache, call>>

\* get_session: `yield session; await session.commit()`; on an exception
\* rollback and re-raise into the run's except block
background_success_commit(r) ==
    /\ Running(r, "success_flushed")
    /\ \E dbok \in BOOLEAN :
         IF dbok
         THEN /\ db' = [db EXCEPT ![req[r].job_id] = req[r].session]
              /\ req' = [req EXCEPT ![r] =
                           [@ EXCEPT !.bg = "returned", !.outcome = "returned",
                                     !.session = NoRow,
                                     !.steps = Append(@, "success_write")]]
         ELSE /\ db' = db
              /\ Fail(r, Exc("SQLAlchemyError", <<"commit failed">>), "success_write")
    /\ UNCHANGED <<lastPoll, cache, call>>

\* an except block that lets the error of its own status write escape
PropagateUnwritten(r) ==
    req' = [req EXCEPT ![r] =
              [@ EXCEPT !.bg = "returned", !.outcome = "raised",
                        !.write_failed = TRUE, !.session = NoRow,
                        !.steps = Append(@, "failed_write_error")]]

\* the run ends in its except block without a terminal status write
ReturnUnwritten(r) ==
    req' = [req EXCEPT ![r] =
              [@ EXCEPT !.bg = "returned", !.outcome = "returned",
                        !.write_failed = TRUE, !.session = NoRow,
                        !.steps = Append(@, "failed_write_error")]]

\* except block: update_status(failed, str(e)) and the processing time, in a
\* session of its own; `except Exception as db_error` only logs
background_failure_flush(r) ==
    /\ Running(r, "failing")
    /\ \E dbok \in BOOLEAN :
         LET updated == update_status(db, req[r].job_id, "failed", req[r].exc.msg, dbok)
         IN  IF updated.exc # NoExc
             THEN ReturnUnwritten(r)
             ELSE req' = [req EXCEPT ![r] =
                            [@ EXCEPT !.bg = "failed_flushed",
                                      !.session = updated.row]]
    /\ UNCHANGED <<db, lastPoll, cache, call>>

\* a failed-status write that is not restricted to the run's own record
background_failure_commit_every_row(r) ==
    /\ Running(r, "failed_flushed")
    /\ db' = [i \in Ids |-> IF db[i] = NoRow THEN NoRow ELSE req[r].session]
    /\ req' = [req EXCEPT ![r] =
                 [@ EXCEPT !.bg = "returned", !.outcome = "returned",
                           !.session = NoRow, !.steps = Append(@, "failed_write")]]
    /\ UNCHANGED <<lastPoll, cache, call>>

background_failure_commit(r) ==
    /\ Running(r, "failed_flushed")
    /\ \E dbok \in BOOLEAN :
         IF dbok
         THEN /\ db' = [db EXCEPT ![req[r].job_id] = req[r].session]
              /\ req' = [req EXCEPT ![r] =
                           [@ EXCEPT !.bg = "returned", !.outcome = "returned",
                                     !.session = NoRow,
                                     !.steps = Append(@, "failed_write")]]
         ELSE /\ db' = db
              /\ ReturnUnwritten(r)
    /\ UNCHANGED <<lastPoll, cache, call>>

(***************************************************************************)
(* FileService.cache = TTLCache(maxsize, ttl): an entry is its key, its    *)
(* value and the seconds since it was stored.                              *)
(***************************************************************************)
\* FileProcessor.get_content_hash: SHA-256 of the bytes, taken as free of
\* collisions: equal hashes for equal bytes only
get_content_hash(content) == content.tag

ExpiredAfter(entry) == entry.age > CACHE_TTL_SECONDS

\* an entry is valid while `timer() < link.expires`, expires = stored + ttl
Expired(entry) == entry.age >= CACHE_TTL_SECONDS

Unexpired(c) == SelectSeq(c, LAMBDA entry : ~Expired(entry))
Without(c, key) == SelectSeq(c, LAMBDA entry : entry.key # key)
Entry(c, key) == CHOOSE i \in 1..Len(c) : c[i].key = key

\* `content_hash in self.cache`
cache_contains(c, key) == \E i \in 1..Len(c) : c[i].key = key /\ ~Expired(c[i])

cache_used_in_place(c, key, value) ==
    [c EXCEPT ![Entry(c, key)] = [@ EXCEPT !.value = value]]

\* `self.cache[content_hash]` for a key the cache contains: the key becomes
\* the most recently used one
cache_used(c, key, value) ==
    Append(Without(c, key), [c[Entry(c, key)] EXCEPT !.value = value])

\* drop least recently used entries until one more fits
RECURSIVE Evicted(_)
Evicted(c) == IF Len(c) + 1 > CacheMaxSize /\ Len(c) > 0 THEN Evicted(Tail(c)) ELSE c

\* `self.cache[content_hash] = cache_result`: expired entries go first, then
\* least recently used ones while the cache is full
cache_store(c, key, value) ==
    LET live == Unexpired(c)
        kept == IF \E i \in 1..Len(live) : live[i].key = key
                THEN Without(live, key)
                ELSE Evicted(live)
    IN  Append(kept, [key |-> key, value |-> value, age |-> 0])

\* time passes: every entry grows older (an entry past its time-to-live
\* stays expired whatever its age)
Tick ==
    /\ \E i \in 1..Len(cache) : ~Expired(cache[i])
    /\ cache' = [i \in 1..Len(cache) |->
                   [cache[i] EXCEPT !.age = Min(@ + TickSeconds, CACHE_TTL_SECONDS)]]
    /\ UNCHANGED <<db, req, lastPoll, call>>

cache_result_with_bytes(result) == result

\* `cache_result = result.copy()`, without the raw bytes of an image
cache_result_copy(result) ==
    IF result.is_image THEN [result EXCEPT !.raw_bytes = "None"] ELSE result

\* FileService.extract_text_from_file: the exception raised (or NoExc), the
\* dictionary returned, and the cache afterwards
FileService_extract_text_from_file(c, f) ==
    LET key == get_content_hash(f.content)
    IN  IF cache_contains(c, key)
        THEN LET cached_result == [c[Entry(c, key)].value EXCEPT !.from_cache = "True"]
             IN  [exc |-> NoExc, result |-> cached_result,
                  cache |-> cache_used(c, key, cached_result)]
        ELSE LET out == FileProcessor_extract_text_from_content(f.content, upload_name(f))
             IN  IF out.exc # NoExc
                 THEN [exc |-> Wrap("FileProcessingError", "Failed to process file", out.exc),
                       result |-> NoExtraction, cache |-> c]
                 ELSE LET result == ExtractionResult(out, f.filename, f.content, "False")
                      IN  [exc |-> NoExc, result |-> result,
                           cache |-> cache_store(c, key, cache_result_copy(result))]

(***************************************************************************)
(* POST /parser/parse-file and /parser/parse-text (synchronous)            *)
(***************************************************************************)
\* the end of a synchronous request: the response, and the row that the
\* request's session commits when get_db leaves its `async with`
SyncDone(r, kind, input, resp, e, id, row, out) ==
    /\ req' = [req EXCEPT ![r] =
                 [@ EXCEPT !.kind = kind, !.input = input, !.pc = "responded",
                           !.resp = resp, !.exc = e, !.job_id = id, !.llm = out]]
    /\ db' = IF row = NoRow THEN db ELSE [db EXCEPT ![id] = row]
    /\ UNCHANGED <<lastPoll, call>>

\* the service's except clauses: a ValidationError is raised again, any other
\* exception becomes a ParserError
ServiceRaises(e, prefix) ==
    IF e.kind = "ValidationError" THEN e ELSE Wrap("ParserError", prefix, e)

\* the route's except clauses: ValidationError -> 400, ParserError -> 500, both
\* with str(e); the HTTPException makes get_session roll the session back, and
\* with it the failed record the service flushed
SyncError(r, kind, input, e, prefix, out) ==
    LET raised == ServiceRaises(e, prefix)
    IN  SyncDone(r, kind, input,
                 HTTPException(IF raised.kind = "ValidationError" THEN 400 ELSE 500,
                               raised.msg),
                 raised, 0, NoRow, out)

\* the service from the LLM call on: parse_cv, repository.create(status
\* success) with a generated primary key, the response, the commit of get_db
SyncParseAndStore(r, kind, input, text, file_name, mime_type, prefix) ==
    \E out \in parse_cv_outcomes, id \in uuid4, dbok \in BOOLEAN, commitok \in BOOLEAN :
        IF out.exc # NoExc
        THEN SyncError(r, kind, input, out.exc, prefix, out)
        ELSE LET created ==
                   repository_create(db, id,
                       Row("success", out.data, <<>>, file_name, Truncate(text),
                           mime_type, metadata_get(out.metadata, "model"),
                           metadata_get(out.metadata, "tokens_used")), dbok)
             IN  IF created.exc # NoExc
                 THEN SyncError(r, kind, input, created.exc, prefix, out)
                 ELSE IF commitok
                 THEN SyncDone(r, kind, input, Resp(200, "none", <<>>, id), NoExc,
                               id, created.row, out)
                 ELSE SyncDone(r, kind, input,
                               Resp(500, "INTERNAL_SERVER_ERROR", <<>>, 0),
                               Exc("SQLAlchemyError", <<"commit failed">>), 0, NoRow,
                               out)

\* parse_file -> ParserService.parse_from_file
parse_file(r) ==
    /\ Arrives(r)
    /\ \E f \in Files, mode \in ParseModes :
         IF mode \notin {"basic", "advanced"}
         THEN /\ SyncDone(r, "parse_file", f,
                          HTTPException(500, <<"Internal server error">>),
                          Exc("HTTPException", <<"Invalid parse_mode">>), 0, NoRow,
                          NoLLM)
              /\ cache' = cache
         ELSE LET got == FileService_extract_text_from_file(cache, f)
              IN  /\ cache' = got.cache
                  /\ IF got.exc # NoExc
                     THEN SyncError(r, "parse_file", f, got.exc,
                                    "Failed to parse CV from file", NoLLM)
                     ELSE IF TooShort(got.result.content)
                     THEN SyncError(r, "parse_file", f,
                              Exc("ValidationError",
                                  <<"Extracted text is too short to parse">>),
                              "Failed to parse CV from file", NoLLM)
                     ELSE SyncParseAndStore(r, "parse_file", f, got.result.content,
                              f.filename, got.result.mime_type,
                              "Failed to parse CV from file")

\* parse_text -> ParserService.parse_from_text
parse_text(r) ==
    /\ Arrives(r)
    /\ cache' = cache
    /\ \E t \in Texts :
         IF TooShort(t.text)
         THEN SyncError(r, "parse_text", t,
                        Exc("ValidationError", <<"Text is too short to parse">>),
                        "Failed to parse CV from text", NoLLM)
         ELSE SyncParseAndStore(r, "parse_text", t, t.text, NoneName, NoneStr,
                                "Failed to parse CV from text")

Next ==
    \E r \in Reqs :
        \/ parse_file_async_create(r)
        \/ parse_text_async_create(r)
        \/ async_commit(r)
        \/ async_schedule_and_respond(r)
        \/ get_job_status(r)
        \/ process_file_background_extract(r)
        \/ process_file_background_validate(r)
        \/ process_text_background_validate(r)
        \/ background_parse_cv(r)
        \/ background_success_flush(r)
        \/ background_success_commit(r)
        \/ background_failure_flush(r)
        \/ background_failure_commit(r)

Spec == Init /\ [][Next]_vars

\* the synchronous routes with the content cache and the clock
NextSync ==
    \/ \E r \in Reqs : parse_file(r)
    \/ \E r \in Reqs : parse_text(r)
    \/ Tick

SyncSpec == Init /\ [][NextSync]_vars

\* the event loop runs a scheduled background task to its end: no step of a
\* run that can be taken is put off forever
BackgroundStep(r) ==
    \/ process_file_background_extract(r)
    \/ process_file_background_validate(r)
    \/ process_text_background_validate(r)
    \/ background_parse_cv(r)
    \/ background_success_flush(r)
    \/ background_success_commit(r)
    \/ background_failure_flush(r)
    \/ background_failure_commit(r)

LiveSpec == Spec /\ \A r \in Reqs : WF_vars(BackgroundStep(r))

(***************************************************************************)
(* Properties.                                                             *)
(***************************************************************************)
\* the committed row of the job a request created (NoRow if it created none)
Job(r) == IF req[r].job_id \in Ids THEN db[req[r].job_id] ELSE NoRow

Terminal == {"success", "failed"}
Returned_(r) == IsAsync(r) /\ req[r].outcome = "returned"
Has(seq, x) == \E i \in 1..Len(seq) : seq[i] = x
Before(seq, x, y) == \E i, j \in 1..Len(seq) : i < j /\ seq[i] = x /\ seq[j] = y
Oversize(r) == req[r].input.type = "file" /\ validate_file_size(req[r].input.content) # NoExc
Unsupported(r) ==
    /\ req[r].input.type = "file"
    /\ guess_mimetype(req[r].input.content, upload_name(req[r].input)).exc.kind
           = "UnsupportedFileTypeError"

\* C1 (as stated): a job is processing once its placeholder is committed, and
\* after its background run has returned its status is success or failed,
\* never still processing
C1_AlwaysTerminalAfterRun ==
    \A r \in Reqs :
        /\ (IsAsync(r) /\ req[r].pc = "committed") => Job(r).status = "processing"
        /\ Returned_(r) => Job(r).status \in Terminal

\* C1 (amended): a job is processing once its placeholder is committed, and
\* after its background run has returned its status is success or failed,
\* unless the write of the failed status itself failed
C1_TerminalAfterRunUnlessFailedWriteFailed ==
    \A r \in Reqs :
        /\ (IsAsync(r) /\ req[r].pc = "committed") => Job(r).status = "processing"
        /\ (Returned_(r) /\ ~req[r].write_failed) => Job(r).status \in Terminal

\* a run whose success write raised and that ended with the job failed
C1_Witness ==
    \E r \in Reqs :
        /\ Returned_(r) /\ ~req[r].write_failed
        /\ Before(req[r].steps, "success_write", "failed_write")
        /\ Job(r).status = "failed"

\* C2: once a record's status is success or failed, no step of the system
\* changes that status
C2_TerminalStatusIsFinal ==
    [][\A i \in Ids : db[i].status \in Terminal => db'[i].status = db[i].status]_vars

\* a finished job that was polled while another submission went through
C2_Witness ==
    \E r, q \in Reqs :
        /\ r # q
        /\ Returned_(r) /\ Job(r).status \in Terminal
        /\ lastPoll.status = Job(r).status
        /\ IsAsync(q) /\ req[q].pc = "responded"

\* C3: the placeholder is committed before the run is scheduled and before
\* the submission is answered, so no poll of a returned job id gets not-found
C3_PlaceholderCommittedBeforeRun ==
    /\ \A r \in Reqs :
         (IsAsync(r) /\ (req[r].bg # "none" \/ req[r].resp.status_code = 200))
             => Job(r) # NoRow
    /\ lastPoll.status_code # 404

\* a poll that found the job still processing
C3_Witness ==
    /\ lastPoll.status_code = 200
    /\ lastPoll.status = "processing"
    /\ \E r \in Reqs : IsAsync(r) /\ req[r].bg = "queued"

\* C4 (as stated): creating a placeholder with an id that already has a
\* record succeeds; no submission is refused because its id is taken
C4_CreateOverwritesExisting ==
    \A r \in Reqs :
        (IsAsync(r) /\ req[r].pc = "responded")
            => ~Has(req[r].exc.msg, "IntegrityError")

\* C5: a background run never raises to its caller; an exception inside it
\* ends with the run returned and, where the failed status could be written,
\* with the job failed and the exception's message as its error_message
C5_RunNeverRaises ==
    \A r \in Reqs :
        /\ req[r].outcome \in {"none", "returned"}
        /\ (IsAsync(r) /\ req[r].bg = "returned") => req[r].outcome = "returned"
        /\ (Returned_(r) /\ req[r].exc # NoExc /\ ~req[r].write_failed)
               => /\ Job(r).status = "failed"
                  /\ Job(r).error_message = req[r].exc.msg

\* a run whose failed-status write raised as well, and that still returned
C5_Witness ==
    \E r \in Reqs :
        /\ Returned_(r)
        /\ req[r].write_failed
        /\ req[r].exc # NoExc

\* C6 (as stated): processing or failed jobs have empty parsed_data, success
\* jobs have the run's result, and success never comes with an empty payload
C6_SuccessNeverEmpty ==
    \A r \in Reqs :
        IsAsync(r) =>
            /\ Job(r).status \in {"processing", "failed"} => Job(r).parsed_data = EmptyData
            /\ Job(r).status = "success"
                   => /\ Job(r).parsed_data = req[r].llm.data
                      /\ Job(r).parsed_data # EmptyData

\* C6 (amended): processing or failed jobs have empty parsed_data, and a
\* success job has exactly what the LLM call of its run returned, which is
\* empty when the LLM returned an empty object
C6_PayloadMatchesStatus ==
    \A r \in Reqs :
        IsAsync(r) =>
            /\ Job(r).status \in {"processing", "failed"} => Job(r).parsed_data = EmptyData
            /\ Job(r).status = "success" => Job(r).parsed_data = req[r].llm.data

\* a job that failed at the LLM call after its extraction had succeeded
C6_Witness ==
    \E r \in Reqs :
        /\ req[r].steps = <<"extract", "validate", "llm", "failed_write">>
        /\ Job(r).status = "failed"
        /\ Job(r).parsed_data = EmptyData

\* C7 (as stated): every success write of a run is preceded by the
\* enrichment step of that run, which follows the LLM call
C7_EnrichmentBeforeSuccessWrite ==
    \A r \in Reqs :
        (Returned_(r) /\ Job(r).status = "success")
            => /\ Before(req[r].steps, "llm", "enrich")
               /\ Before(req[r].steps, "enrich", "success_write")

\* C8: every scheduled run leads to its job being success or failed, or to a
\* failed write of the terminal status
C8_JobEventuallyTerminal ==
    \A r \in Reqs :
        (req[r].bg = "queued")
            ~> (Job(r).status \in Terminal \/ req[r].write_failed)

\* a run that returned and left its job processing: the terminal write failed
C8_Witness ==
    \E r \in Reqs :
        /\ Returned_(r)
        /\ Job(r).status = "processing"
        /\ req[r].write_failed

\* C9 (as stated): the submission of a file over the size limit is answered
\* with the file-size-limit error, and leaves no job record
C9_OversizeRefusedAtSubmission ==
    \A r \in Reqs :
        (req[r].kind = "parse_file_async" /\ req[r].pc = "responded" /\ Oversize(r)
         /\ req[r].exc = NoExc)
            => /\ req[r].resp.status_code = status_code("FileSizeLimitError")
               /\ Job(r) = NoRow

\* C10 (as stated): the submission of a file of an unsupported type is
\* answered with the unsupported-type error, not with a wrapping error
C10_UnsupportedTypeKept ==
    \A r \in Reqs :
        (req[r].kind = "parse_file" /\ req[r].pc = "responded" /\ Unsupported(r)
         /\ req[r].exc.kind # "HTTPException")
            => /\ req[r].exc.kind = "UnsupportedFileTypeError"
               /\ req[r].resp.status_code = status_code("UnsupportedFileTypeError")

IsSync(r) == req[r].kind \in {"parse_file", "parse_text"}

\* the error kind a synchronous response carries: its HTTP status code and
\* the class of the exception that reached the route
ExposedKind(r) == <<req[r].resp.status_code, req[r].exc.kind>>

\* C11 (as stated): two requests whose LLM calls failed with different kinds
\* expose different error kinds
C11_LLMFailureKindsExposed ==
    \A r, q \in Reqs :
        (/\ IsSync(r) /\ IsSync(q)
         /\ req[r].llm.exc # NoExc /\ req[q].llm.exc # NoExc
         /\ req[r].llm.exc.kind # req[q].llm.exc.kind)
            => ExposedKind(r) # ExposedKind(q)

\* C12 (as stated): a run whose input is an image calls the vision path and
\* is not failed for lacking extracted text
C12_ImageRoutedToVision ==
    \A r \in Reqs :
        (/\ req[r].kind = "parse_file_async"
         /\ req[r].extraction # NoExtraction
         /\ req[r].extraction.is_image
         /\ Has(req[r].steps, "validate"))
            => /\ Has(req[r].steps, "vision")
               /\ req[r].exc.kind # "ValidationError"

(***************************************************************************)
(* Direct calls of FileProcessor.guess_mimetype.                           *)
(***************************************************************************)
\* the state every direct-call specification starts from, but for the call
NothingRunning ==
    /\ db = [i \in Ids |-> NoRow]
    /\ req = [r \in Reqs |-> IdleReq]
    /\ lastPoll = NoPoll
    /\ cache = <<>>

\* types libmagic can sniff: some supported, some not
Magics ==
    { "application/pdf", "text/plain", "application/octet-stream", "image/png",
      "text/html", "application/zip", "text/x-tex", "inode/x-empty" }

\* "", "cv", "cv.pdf", "cv.PDF", "cv.txt", "cv.TXT", "a.zip", "cv.html",
\* "cv.docx", "scan.png", "cv.tar.gz", "archive.v2.pdf", "cv.", ".pdf"
Filenames ==
    { <<>>, <<"cv">>, <<"cv", "pdf">>, <<"cv", "PDF">>, <<"cv", "txt">>,
      <<"cv", "TXT">>, <<"a", "zip">>, <<"cv", "html">>, <<"cv", "docx">>,
      <<"scan", "png">>, <<"cv", "tar", "gz">>, <<"archive", "v2", "pdf">>,
      <<"cv", "">>, <<"", "pdf">> }

MimeInit ==
    /\ NothingRunning
    /\ call \in [fn : {"guess_mimetype"},
                 content : {Content("bytes", SmallLen, m, NoParser) : m \in Magics},
                 filename : Filenames,
                 done : {FALSE},
                 out : {Raised(NoExc)}]

\* mime_type = self.guess_mimetype(content, filename)
GuessMimetype ==
    /\ call.fn = "guess_mimetype"
    /\ ~call.done
    /\ call' = [call EXCEPT !.done = TRUE,
                            !.out = guess_mimetype(call.content, call.filename)]
    /\ UNCHANGED <<db, req, lastPoll, cache>>

MimeSpec == MimeInit /\ [][GuessMimetype]_vars

Keys(c) == {c[i].key : i \in 1..Len(c)}
Lookup(c, key) == IF key \in Keys(c) THEN <<c[Entry(c, key)]>> ELSE <<>>

ServiceCall(fn, f, got, after) ==
    [fn |-> fn, file |-> f, found |-> Lookup(cache, get_content_hash(f.content)),
     exc |-> got.exc, result |-> got.result,
     evicted |-> {cache[i] : i \in {j \in 1..Len(cache) : cache[j].key \notin Keys(after)}},
     recency |-> IF got.exc # NoExc \/ fn # "extract_text_from_file"
                 THEN call.recency
                 ELSE Append(SelectSeq(call.recency,
                                LAMBDA k : k # get_content_hash(f.content)
                                           /\ k \in Keys(after)),
                             get_content_hash(f.content))]

CacheInit ==
    /\ NothingRunning
    /\ call = [fn |-> "none", file |-> NoInput, found |-> <<>>, exc |-> NoExc,
               result |-> NoExtraction, evicted |-> {}, recency |-> <<>>]

\* the synchronous route's extraction
extract_text_from_file ==
    /\ \E f \in Files :
         LET got == FileService_extract_text_from_file(cache, f)
         IN  /\ cache' = got.cache
             /\ call' = ServiceCall("extract_text_from_file", f, got, got.cache)
    /\ UNCHANGED <<db, req, lastPoll>>

\* the background run's extraction
extract_text_from_content ==
    /\ \E f \in Files :
         LET got == FileService_extract_text_from_content(f.content, upload_name(f))
         IN  call' = ServiceCall("extract_text_from_content", f, got, cache)
    /\ UNCHANGED <<db, req, lastPoll, cache>>

CacheSpec ==
    CacheInit /\ [][extract_text_from_file \/ extract_text_from_content \/ Tick]_vars

\* C14 (as stated): two successive submissions of the same bytes that both
\* yield text yield the same text, whatever path (cache hit, cache miss,
\* background extraction) served each of them.
C14_SameBytesSameText ==
    [][(/\ call.fn # "none"
        /\ call'.file.content = call.file.content
        /\ call.exc = NoExc
        /\ call'.exc = NoExc)
       => call'.result.content = call.result.content]_vars

\* C15 (as stated): a call, through either extraction path, that finds an
\* unexpired cache entry for its bytes takes its result from the cache
\* instead of extracting again.
C15_LaterSubmissionServedFromCache ==
    (call.found # <<>> /\ call.found[1].age < CACHE_TTL_SECONDS)
        => (call.exc = NoExc /\ call.result.from_cache = "True")

\* C16: a cache lookup that finds an entry stored at least the time-to-live
\* ago is a miss: the result is extracted anew (or the extraction raises),
\* never taken from the entry, however full the cache is and whether or not
\* the entry was hit since it was stored.
C16_LookupAfterTTLIsMiss ==
    (/\ call.fn = "extract_text_from_file"
     /\ call.found # <<>>
     /\ call.found[1].age >= CACHE_TTL_SECONDS)
        => (call.exc # NoExc \/ call.result.from_cache = "False")

\* a full cache, an entry that was hit and then outlived its time-to-live,
\* and a lookup of its hash that extracted again
C16_Witness ==
    /\ call.fn = "extract_text_from_file"
    /\ call.found # <<>>
    /\ call.found[1].age >= CACHE_TTL_SECONDS
    /\ call.found[1].value.from_cache = "True"
    /\ Len(cache) = CacheMaxSize
    /\ call.exc = NoExc
    /\ call.result.from_cache = "False"

\* C17: the cache never holds more than CacheMaxSize entries, and a store of
\* a new hash into a full cache none of whose entries has expired removes
\* exactly one entry, the least recently used (stored or hit) one.
C17_BoundedLRUEviction ==
    /\ [](Len(cache) <= CacheMaxSize)
    /\ [][(/\ call'.fn = "extract_text_from_file"
            /\ get_content_hash(call'.file.content) \notin Keys(cache)
            /\ get_content_hash(call'.file.content) \in Keys(cache')
            /\ Len(cache) = CacheMaxSize
            /\ \A i \in 1..Len(cache) : cache[i].age < CACHE_TTL_SECONDS)
           => (/\ Keys(cache) \ Keys(cache') = {call.recency[1]}
               /\ Len(cache') = CacheMaxSize)]_vars

\* a store into a full cache evicted an unexpired entry although an older
\* entry, hit since, stayed
C17_Witness ==
    /\ call.fn = "extract_text_from_file"
    /\ call.found = <<>>
    /\ call.exc = NoExc
    /\ Len(cache) = CacheMaxSize
    /\ cache[Len(cache)].key = get_content_hash(call.file.content)
    /\ cache[Len(cache)].age = 0
    /\ \E e \in call.evicted : \E i \in 1..Len(cache) :
          /\ e.age < cache[i].age
          /\ cache[i].age < CACHE_TTL_SECONDS
          /\ cache[i].value.from_cache = "True"

\* C18: no cache entry holds raw bytes; an extraction of an image that
\* missed the cache returns the uploaded bytes to its caller, and one that
\* hit the cache returns is_image true with no raw bytes.
C18_CacheHoldsNoRawBytes ==
    /\ \A i \in 1..Len(cache) : cache[i].value.raw_bytes = "None"
    /\ (/\ call.fn = "extract_text_from_file"
         /\ call.exc = NoExc
         /\ is_image_format(call.result.mime_type))
        => /\ call.result.is_image
           /\ call.result.from_cache = "False"
                => call.result.raw_bytes = call.file.content.tag
           /\ call.result.from_cache = "True" => call.result.raw_bytes = "None"

\* an image was uploaded, its bytes returned and its entry stored without
\* them
C18_Witness ==
    /\ call.fn = "extract_text_from_file"
    /\ call.exc = NoExc
    /\ call.result.is_image
    /\ call.result.from_cache = "False"
    /\ call.result.raw_bytes = call.file.content.tag
    /\ \E i \in 1..Len(cache) :
          /\ cache[i].key = get_content_hash(call.file.content)
          /\ cache[i].value.is_image
          /\ cache[i].value.raw_bytes = "None"

(***************************************************************************)
(* experience_utils.  A Python value is None, a string (the sequence of    *)
(* its characters), an integer or a dictionary with the keys it holds.     *)
(***************************************************************************)
PyNone == [t |-> "None"]
PyStr(s) == [t |-> "str", s |-> s]
PyInt(n) == [t |-> "int", n |-> n]
PyDict(keys, year, month) == [t |-> "dict", keys |-> keys, year |-> year, month |-> month]

\* `not value` is the negation of this
truthy(v) ==
    CASE v.t = "None" -> FALSE
      [] v.t = "str" -> Len(v.s) > 0
      [] v.t = "int" -> v.n # 0
      [] v.t = "dict" -> v.keys # {}

\* d.get(key) on a dictionary
dict_get(d, key) == IF key \in d.keys THEN d[key] ELSE PyNone

Whitespace == {" ", "\t", "\n"}
Digits == <<"0", "1", "2", "3", "4", "5", "6", "7", "8", "9">>
UpperCase == <<"A", "B", "C", "D", "E", "F", "G", "H", "I", "J", "K", "L", "M", "N", "O", "P", "Q", "R", "S", "T", "U", "V", "W", "X", "Y", "Z">>
LowerCase == <<"a", "b", "c", "d", "e", "f", "g", "h", "i", "j", "k", "l", "m", "n", "o", "p", "q", "r", "s", "t", "u", "v", "w", "x", "y", "z">>

RECURSIVE str_lstrip(_)
str_lstrip(s) == IF s # <<>> /\ Head(s) \in Whitespace THEN str_lstrip(Tail(s)) ELSE s
RECURSIVE str_rstrip(_)
str_rstrip(s) ==
    IF s # <<>> /\ s[Len(s)] \in Whitespace THEN str_rstrip(SubSeq(s, 1, Len(s) - 1)) ELSE s
\* str.strip()
str_strip(s) == str_rstrip(str_lstrip(s))

str_as_written(s) == s

\* str.lower()
str_lower(s) ==
    [i \in 1..Len(s) |->
       IF \E u \in 1..Len(UpperCase) : UpperCase[u] = s[i]
       THEN LowerCase[CHOOSE u \in 1..Len(UpperCase) : UpperCase[u] = s[i]]
       ELSE s[i]]

IsDigit(c) == \E d \in 1..Len(Digits) : Digits[d] = c
DigitValue(c) == (CHOOSE d \in 1..Len(Digits) : Digits[d] = c) - 1

RECURSIVE Numeral(_)
Numeral(ds) ==
    IF ds = <<>> THEN 0
    ELSE Numeral(SubSeq(ds, 1, Len(ds) - 1)) * 10 + DigitValue(ds[Len(ds)])

RECURSIVE Decimal(_)
Decimal(n) == IF n < 10 THEN <<Digits[n + 1]>> ELSE Append(Decimal(n \div 10), Digits[(n % 10) + 1])

\* str(value)
py_str(v) ==
    CASE v.t = "str" -> v.s
      [] v.t = "int" -> IF v.n < 0 THEN <<"-">> \o Decimal(0 - v.n) ELSE Decimal(v.n)
      [] OTHER -> <<"N", "o", "n", "e">>

\* int(string): surrounding whitespace and one sign are accepted; anything
\* but decimal digits after them is a ValueError (the underscore grouping
\* that int() also accepts is left out)
py_int(s) ==
    LET t == str_strip(s)
        signed == t # <<>> /\ Head(t) \in {"+", "-"}
        ds == IF signed THEN Tail(t) ELSE t
    IN  IF ds = <<>> \/ \E i \in 1..Len(ds) : ~IsDigit(ds[i])
        THEN [exc |-> "ValueError", n |-> 0]
        ELSE [exc |-> "None",
              n |-> IF signed /\ Head(t) = "-" THEN 0 - Numeral(ds) ELSE Numeral(ds)]

MONTH_MAPPING ==
    { <<<<"j", "a", "n", "u", "a", "r", "y">>, 1>>,
      <<<<"f", "e", "b", "r", "u", "a", "r", "y">>, 2>>,
      <<<<"m", "a", "r", "c", "h">>, 3>>,
      <<<<"a", "p", "r", "i", "l">>, 4>>,
      <<<<"m", "a", "y">>, 5>>,
      <<<<"j", "u", "n", "e">>, 6>>,
      <<<<"j", "u", "l", "y">>, 7>>,
      <<<<"a", "u", "g", "u", "s", "t">>, 8>>,
      <<<<"s", "e", "p", "t", "e", "m", "b", "e", "r">>, 9>>,
      <<<<"o", "c", "t", "o", "b", "e", "r">>, 10>>,
      <<<<"n", "o", "v", "e", "m", "b", "e", "r">>, 11>>,
      <<<<"d", "e", "c", "e", "m", "b", "e", "r">>, 12>>,
      <<<<"j", "a", "n">>, 1>>,
      <<<<"f", "e", "b">>, 2>>,
      <<<<"m", "a", "r">>, 3>>,
      <<<<"a", "p", "r">>, 4>>,
      <<<<"j", "u", "n">>, 6>>,
      <<<<"j", "u", "l">>, 7>>,
      <<<<"a", "u", "g">>, 8>>,
      <<<<"s", "e", "p">>, 9>>,
      <<<<"o", "c", "t">>, 10>>,
      <<<<"n", "o", "v">>, 11>>,
      <<<<"d", "e", "c">>, 12>> }

\* MONTH_MAPPING.get(key, default)
MONTH_MAPPING_get(key, default) ==
    IF \E p \in MONTH_MAPPING : p[1] = key
    THEN (CHOOSE p \in MONTH_MAPPING : p[1] = key)[2]
    ELSE default

Max(a, b) == IF a >= b THEN a ELSE b

parse_month(month_value) ==
    IF ~truthy(month_value) THEN 1
    ELSE IF month_value.t = "int" THEN Max(1, Min(12, month_value.n))
    ELSE LET month_str == str_strip(py_str(month_value))
         IN  IF month_str = <<>> THEN 1
             ELSE IF py_int(month_str).exc = "None"
             THEN Max(1, Min(12, py_int(month_str).n))
             ELSE MONTH_MAPPING_get(str_lower(month_str), 1)

\* the value a call returns, or the exception that leaves it
Return(n) == [exc |-> "None", value |-> n]
Raise(kind) == [exc |-> kind, value |-> 0]

\* `duration = ...; return max(0, duration + 1)`
duration_between(start_year, start_month, end_year, end_month) ==
    Return(Max(0, (end_year - start_year) * 12 + (end_month - start_month) + 1))

calculate_duration_end_date_first(start_date, end_date, is_current, now) ==
    IF ~truthy(start_date) \/ ~truthy(dict_get(start_date, "year"))
    THEN Return(0)
    ELSE LET start_year == py_int(str_strip(py_str(dict_get(start_date, "year"))))
             start_month == parse_month(dict_get(start_date, "month"))
             end_year == py_int(str_strip(py_str(dict_get(end_date, "year"))))
         IN  IF start_year.exc # "None" THEN Return(0)
             ELSE IF truthy(end_date) /\ truthy(dict_get(end_date, "year"))
             THEN IF end_year.exc # "None" THEN Return(0)
                  ELSE duration_between(start_year.n, start_month, end_year.n,
                                        parse_month(dict_get(end_date, "month")))
             ELSE IF is_current
             THEN duration_between(start_year.n, start_month, now.year, now.month)
             ELSE Return(0)

\* the try block of calculate_duration_in_months; `now` is what
\* datetime.now() returns during the call
duration_try(start_date, end_date, is_current, now) ==
    LET start_year_str == str_strip(py_str(dict_get(start_date, "year")))
        start_year == py_int(start_year_str)
        start_month == parse_month(dict_get(start_date, "month"))
        end_year_str == str_strip(py_str(dict_get(end_date, "year")))
        end_year == py_int(end_year_str)
        end_month_value == dict_get(end_date, "month")
        end_month == IF ~truthy(end_month_value)
                        \/ str_strip(py_str(end_month_value)) = <<>>
                     THEN 12
                     ELSE parse_month(end_month_value)
    IN  IF start_year_str = <<>> THEN Return(0)
        ELSE IF start_year.exc # "None" THEN Raise(start_year.exc)
        ELSE IF is_current
        THEN duration_between(start_year.n, start_month, now.year, now.month)
        ELSE IF truthy(end_date) /\ end_date.t # "dict" THEN Raise("AttributeError")
        ELSE IF truthy(end_date) /\ truthy(dict_get(end_date, "year"))
        THEN IF end_year_str = <<>> THEN Return(0)
             ELSE IF end_year.exc # "None" THEN Raise(end_year.exc)
             ELSE duration_between(start_year.n, start_month, end_year.n, end_month)
        ELSE Return(0)

\* calculate_duration_in_months: the guard before the try block, the try
\* block, and `except (ValueError, TypeError): return 0`; `.get` on a date
\* that is a string or a number is an AttributeError
calculate_duration_in_months(start_date, end_date, is_current, now) ==
    IF ~truthy(start_date) THEN Return(0)
    ELSE IF start_date.t # "dict" THEN Raise("AttributeError")
    ELSE IF ~truthy(dict_get(start_date, "year")) THEN Return(0)
    ELSE LET tried == duration_try(start_date, end_date, is_current, now)
         IN  IF tried.exc \in {"ValueError", "TypeError"} THEN Return(0) ELSE tried

(***************************************************************************)
(* Calls of calculate_duration_in_months.  Every input is drawn together   *)
(* with what it means (the year or month a reader takes it for), which the *)
(* function never sees; the same call is made with a second end date.      *)
(***************************************************************************)
Missing == [kind |-> "missing"]
NonNumeric == [kind |-> "non-numeric"]
Numeric(n) == [kind |-> "numeric", n |-> n]
Absent == [kind |-> "absent"]
Unrecognised == [kind |-> "unrecognised"]
Month(n) == [kind |-> "month", n |-> n]

YearInputs ==
    { [value |-> PyNone, means |-> Missing],
      [value |-> PyStr(<<>>), means |-> Missing],
      [value |-> PyStr(<<"2", "0", "2", "0">>), means |-> Numeric(2020)],
      [value |-> PyStr(<<"2", "0", "2", "1">>), means |-> Numeric(2021)],
      [value |-> PyStr(<<" ", "2", "0", "1", "9", " ">>), means |-> Numeric(2019)],
      [value |-> PyStr(<<"a", "b", "c">>), means |-> NonNumeric],
      [value |-> PyInt(2022), means |-> Numeric(2022)] }

MonthInputs ==
    { [value |-> PyNone, means |-> Absent],
      [value |-> PyStr(<<>>), means |-> Absent],
      [value |-> PyStr(<<"M", "a", "r", "c", "h">>), means |-> Month(3)],
      [value |-> PyStr(<<"m", "a", "r", "c", "h">>), means |-> Month(3)],
      [value |-> PyStr(<<"D", "E", "C">>), means |-> Month(12)],
      [value |-> PyStr(<<" ", "1", "1", " ">>), means |-> Month(11)],
      [value |-> PyStr(<<"S", "p", "r", "i", "n", "g">>), means |-> Unrecognised],
      [value |-> PyStr(<<"1", "3">>), means |-> Unrecognised],
      [value |-> PyInt(7), means |-> Month(7)],
      [value |-> PyInt(0), means |-> Unrecognised] }

BothKeys == {"year", "month"}

DateInputs ==
    { [date |-> PyDict(BothKeys, y.value, m.value), year |-> y.means, month |-> m.means] :
        y \in YearInputs, m \in MonthInputs }
    \cup { [date |-> PyNone, year |-> Missing, month |-> Absent],
           [date |-> PyDict({}, PyNone, PyNone), year |-> Missing, month |-> Absent],
           [date |-> PyDict({"year"}, PyStr(<<"2", "0", "2", "0">>), PyNone),
            year |-> Numeric(2020), month |-> Absent],
           [date |-> PyDict({"month"}, PyNone, PyStr(<<"M", "a", "y">>)),
            year |-> Missing, month |-> Month(5)] }

OtherEndDates ==
    { PyNone,
      PyDict({"year"}, PyStr(<<"1", "9", "9", "9">>), PyNone),
      PyDict(BothKeys, PyStr(<<"a", "b", "c">>), PyStr(<<"x">>)),
      PyDict(BothKeys, PyStr(<<"2", "0", "3", "0">>), PyStr(<<"D", "e", "c", "e", "m", "b", "e", "r">>)) }

Nows == { [year |-> 2019, month |-> 12], [year |-> 2021, month |-> 3],
          [year |-> 2023, month |-> 1] }

DurationInit ==
    /\ NothingRunning
    /\ call \in [fn : {"calculate_duration_in_months"},
                  start_date : DateInputs, end_date : DateInputs,
                  other_end_date : OtherEndDates,
                  is_current : BOOLEAN, now : Nows,
                  done : {FALSE}, out : {Return(0)}, other_out : {Return(0)}]

CalculateDuration ==
    /\ call.fn = "calculate_duration_in_months"
    /\ ~call.done
    /\ call' = [call EXCEPT
                  !.done = TRUE,
                  !.out = calculate_duration_in_months(call.start_date.date,
                              call.end_date.date, call.is_current, call.now),
                  !.other_out = calculate_duration_in_months(call.start_date.date,
                                    call.other_end_date, call.is_current, call.now)]
    /\ UNCHANGED <<db, req, lastPoll, cache>>

DurationSpec == DurationInit /\ [][CalculateDuration]_vars

\* the month a reader takes an input for: the default when it is absent
MeantMonth(m, default) == IF m.kind = "absent" THEN default ELSE m.n
Recognised(m) == m.kind \in {"month", "absent"}

\* C19: with is_current false, calculate_duration_in_months raises nothing;
\* for numeric years it returns max(0, (end_year - start_year) * 12 +
\* (end_month - start_month) + 1) with an absent start month taken as 1 and
\* an absent end month as 12; if either year is missing or non-numeric it
\* returns 0.
C19_DurationFormula ==
    (call.fn = "calculate_duration_in_months" /\ call.done /\ ~call.is_current)
        => /\ call.out.exc = "None"
           /\ (/\ call.start_date.year.kind = "numeric"
                /\ call.end_date.year.kind = "numeric"
                /\ Recognised(call.start_date.month)
                /\ Recognised(call.end_date.month))
               => call.out.value =
                    Max(0, (call.end_date.year.n - call.start_date.year.n) * 12
                           + (MeantMonth(call.end_date.month, 12)
                              - MeantMonth(call.start_date.month, 1))
                           + 1)
           /\ (\/ call.start_date.year.kind # "numeric"
                \/ call.end_date.year.kind # "numeric")
               => call.out.value = 0

\* the spec's example: 2020/March to 2021/march is 13 months
C19_Witness ==
    /\ call.fn = "calculate_duration_in_months"
    /\ call.done
    /\ ~call.is_current
    /\ call.start_date.date =
         PyDict(BothKeys, PyStr(<<"2", "0", "2", "0">>), PyStr(<<"M", "a", "r", "c", "h">>))
    /\ call.end_date.date =
         PyDict(BothKeys, PyStr(<<"2", "0", "2", "1">>), PyStr(<<"m", "a", "r", "c", "h">>))
    /\ call.out = Return(13)

\* C20: with is_current true and a numeric start year, the result is the
\* same whatever the end date is, and it is the inclusive count of months
\* from the start month to the current month.
C20_CurrentIgnoresEndDate ==
    (/\ call.fn = "calculate_duration_in_months"
     /\ call.done
     /\ call.is_current
     /\ call.start_date.year.kind = "numeric")
        => /\ call.out.exc = "None"
           /\ call.other_out = call.out
           /\ Recognised(call.start_date.month)
               => call.out.value =
                    Max(0, (call.now.year - call.start_date.year.n) * 12
                           + (call.now.month - MeantMonth(call.start_date.month, 1))
                           + 1)

\* an ongoing position whose end date is garbage in one call and absent in
\* the other, both counted up to the current month
C20_Witness ==
    /\ call.fn = "calculate_duration_in_months"
    /\ call.done
    /\ call.is_current
    /\ call.start_date.year.kind = "numeric"
    /\ call.end_date.year.kind = "non-numeric"
    /\ call.other_end_date = PyNone
    /\ call.out.value > 12
    /\ call.other_out = call.out

(***************************************************************************)
(* enrich_professional_experiences and enrich_educations, applied to lists *)
(* of at most MaxEntries entries.  An enriched entry is the copy of the    *)
(* entry with its computed duration field.                                 *)
(***************************************************************************)
MaxEntries == 2

Experience(title, start_date, end_date, is_current) ==
    [title |-> title, start_date |-> start_date, end_date |-> end_date, is_current |-> is_current]
Education(school, start_year, end_year, is_current) ==
    [school |-> school, start_year |-> start_year, end_year |-> end_year, is_current |-> is_current]
EnrichedEntry(entry, duration) == [copy |-> entry, duration |-> duration]
RaiseList(kind) == [exc |-> kind, value |-> <<>>]

RECURSIVE enrich_professional_experiences(_, _)
enrich_professional_experiences(professional_experiences, now) ==
    IF professional_experiences = <<>> THEN Return(<<>>)
    ELSE LET exp == Head(professional_experiences)
             duration == calculate_duration_in_months(exp.start_date, exp.end_date,
                                                      exp.is_current, now)
             rest == enrich_professional_experiences(Tail(professional_experiences), now)
         IN  IF duration.exc # "None" THEN RaiseList(duration.exc)
             ELSE IF rest.exc # "None" THEN rest
             ELSE Return(<<EnrichedEntry(exp, PyInt(duration.value))>> \o rest.value)

\* int(value) on a value that is a string or an integer
int_of(v) ==
    CASE v.t = "int" -> [exc |-> "None", n |-> v.n]
      [] v.t = "str" -> py_int(v.s)
      [] OTHER -> [exc |-> "TypeError", n |-> 0]

\* the body of the loop of enrich_educations: the value of duration_in_years
education_duration(edu, now) ==
    IF ~truthy(edu.start_year) THEN PyNone
    ELSE IF int_of(edu.start_year).exc # "None" THEN PyNone
    ELSE IF edu.is_current
    THEN PyInt(Max(0, now.year - int_of(edu.start_year).n))
    ELSE IF truthy(edu.end_year)
    THEN IF int_of(edu.end_year).exc # "None" THEN PyNone
         ELSE PyInt(Max(0, int_of(edu.end_year).n - int_of(edu.start_year).n))
    ELSE PyNone

RECURSIVE enrich_educations(_, _)
enrich_educations(educations, now) ==
    IF educations = <<>> THEN Return(<<>>)
    ELSE Return(<<EnrichedEntry(Head(educations), education_duration(Head(educations), now))>>
                \o enrich_educations(Tail(educations), now).value)

\* what a reader takes an entry for: malformed dates, or the months (years)
\* its dates span
Malformed == [ok |-> FALSE]
Spans(n) == [ok |-> TRUE, current |-> FALSE, n |-> n]
Since(year, month) == [ok |-> TRUE, current |-> TRUE, year |-> year, month |-> month]

ExperienceInputs ==
    { [entry |-> Experience("dated", PyDict(BothKeys, PyStr(<<"2", "0", "2", "0">>), PyStr(<<"M", "a", "r", "c", "h">>)),
                            PyDict(BothKeys, PyStr(<<"2", "0", "2", "1">>), PyStr(<<"m", "a", "r", "c", "h">>)), FALSE),
       means |-> Spans(13)],
      [entry |-> Experience("ongoing", PyDict({"year"}, PyStr(<<"2", "0", "1", "9">>), PyNone), PyNone, TRUE),
       means |-> Since(2019, 1)],
      [entry |-> Experience("no start", PyNone, PyDict(BothKeys, PyStr(<<"2", "0", "2", "1">>), PyNone), FALSE),
       means |-> Malformed],
      [entry |-> Experience("no end", PyDict(BothKeys, PyStr(<<"2", "0", "2", "0">>), PyStr(<<"M", "a", "r", "c", "h">>)), PyNone, FALSE),
       means |-> Malformed],
      [entry |-> Experience("non-numeric", PyDict(BothKeys, PyStr(<<"a", "b", "c">>), PyStr(<<"M", "a", "r", "c", "h">>)),
                            PyDict(BothKeys, PyStr(<<"2", "0", "2", "1">>), PyNone), FALSE),
       means |-> Malformed],
      [entry |-> Experience("date as text", PyStr(<<"2", "0", "2", "0", "-", "0", "3">>),
                            PyDict(BothKeys, PyStr(<<"2", "0", "2", "1">>), PyNone), FALSE),
       means |-> Malformed] }

EducationInputs ==
    { [entry |-> Education("dated", PyStr(<<"2", "0", "1", "9">>), PyStr(<<"2", "0", "2", "1">>), FALSE), means |-> Spans(2)],
      [entry |-> Education("ongoing", PyInt(2019), PyNone, TRUE), means |-> Since(2019, 1)],
      [entry |-> Education("no start", PyNone, PyStr(<<"2", "0", "2", "1">>), FALSE), means |-> Malformed],
      [entry |-> Education("no end", PyStr(<<"2", "0", "2", "0">>), PyNone, FALSE), means |-> Malformed],
      [entry |-> Education("non-numeric", PyStr(<<"a", "b", "c">>), PyStr(<<"2", "0", "2", "1">>), FALSE), means |-> Malformed],
      [entry |-> Education("end as text", PyStr(<<"2", "0", "2", "0">>), PyStr(<<"2", "0", "x", "4">>), FALSE), means |-> Malformed] }

ListsOf(S) == UNION {[1..n -> S] : n \in 0..MaxEntries}

EnrichInit ==
    /\ NothingRunning
    /\ \/ call \in [fn : {"enrich_professional_experiences"},
                     entries : ListsOf(ExperienceInputs), now : Nows,
                     done : {FALSE}, out : {Return(<<>>)}]
       \/ call \in [fn : {"enrich_educations"},
                     entries : ListsOf(EducationInputs), now : Nows,
                     done : {FALSE}, out : {Return(<<>>)}]

EntriesOf(inputs) == [i \in 1..Len(inputs) |-> inputs[i].entry]

EnrichExperiences ==
    /\ call.fn = "enrich_professional_experiences"
    /\ ~call.done
    /\ call' = [call EXCEPT !.done = TRUE,
                  !.out = enrich_professional_experiences(EntriesOf(call.entries), call.now)]
    /\ UNCHANGED <<db, req, lastPoll, cache>>

EnrichEducations ==
    /\ call.fn = "enrich_educations"
    /\ ~call.done
    /\ call' = [call EXCEPT !.done = TRUE,
                  !.out = enrich_educations(EntriesOf(call.entries), call.now)]
    /\ UNCHANGED <<db, req, lastPoll, cache>>

EnrichSpec == EnrichInit /\ [][EnrichExperiences \/ EnrichEducations]_vars

\* the duration a well-formed entry spans: inclusive months of an
\* experience, years of an education
MeantDuration(input, fn, now) ==
    IF ~input.means.current THEN input.means.n
    ELSE IF fn = "enrich_educations" THEN Max(0, now.year - input.means.year)
    ELSE Max(0, (now.year - input.means.year) * 12 + (now.month - input.means.month) + 1)

\* C21 (as stated): enrichment raises nothing and returns one entry per
\* input entry, in order; an entry with malformed dates gets a null
\* duration and every other entry gets its own computed duration.
C21_EnrichmentPerEntry ==
    (call.fn \in {"enrich_professional_experiences", "enrich_educations"} /\ call.done)
        => /\ call.out.exc = "None"
           /\ Len(call.out.value) = Len(call.entries)
           /\ \A i \in 1..Len(call.entries) :
                 /\ call.out.value[i].copy = call.entries[i].entry
                 /\ call.out.value[i].duration =
                      IF call.entries[i].means.ok
                      THEN PyInt(MeantDuration(call.entries[i], call.fn, call.now))
                      ELSE PyNone

(***************************************************************************)
(* FileStorageManager.  File names are Python strings (sequences of        *)
(* characters); the outcome of opening and writing the file is an input.   *)
(***************************************************************************)
BaseNameLimit == 50
LongNameLen == 52

\* s.rsplit(".", 1)
rsplit_dot(s) ==
    IF \E i \in 1..Len(s) : s[i] = "."
    THEN LET last == CHOOSE i \in 1..Len(s) : s[i] = "." /\ \A j \in (i + 1)..Len(s) : s[j] # "."
         IN  <<SubSeq(s, 1, last - 1), SubSeq(s, last + 1, Len(s))>>
    ELSE <<s>>

\* str(job_id).split("-")[0]
first_segment(s) ==
    IF \E i \in 1..Len(s) : s[i] = "-"
    THEN SubSeq(s, 1, (CHOOSE i \in 1..Len(s) : s[i] = "-" /\ \A j \in 1..(i - 1) : s[j] # "-") - 1)
    ELSE s

\* c.isalnum() for the ASCII letters and digits
isalnum(c) ==
    \/ IsDigit(c)
    \/ \E u \in 1..Len(UpperCase) : UpperCase[u] = c \/ LowerCase[u] = c

\* `c if c.isalnum() or c in "-_" else "_"`
clean_char(c) == IF isalnum(c) \/ c \in {"-", "_"} THEN c ELSE "_"

clean_base_name(base_name) ==
    LET cleaned == [i \in 1..Len(base_name) |-> clean_char(base_name[i])]
    IN  SubSeq(cleaned, 1, Min(Len(cleaned), BaseNameLimit))

\* FileStorageManager.generate_filename; job_id is PyNone or the string of
\* the UUID, timestamp is datetime.now().strftime("%Y%m%d_%H%M%S")
generate_filename(original_filename, job_id, timestamp) ==
    LET name_parts == rsplit_dot(original_filename)
        base_name == clean_base_name(name_parts[1])
        extension == IF Len(name_parts) = 2 THEN name_parts[2] ELSE <<"b", "i", "n">>
    IN  IF truthy(job_id)
        THEN base_name \o <<"_">> \o timestamp \o <<"_">> \o first_segment(job_id.s)
             \o <<".">> \o extension
        ELSE base_name \o <<"_">> \o timestamp \o <<".">> \o extension

\* FileStorageManager.save_file: the exception or the value returned, and
\* the name, relative to the storage directory, of the file written;
\* `written` tells whether open() and write() succeed
save_file(enabled, original_filename, job_id, timestamp, written) ==
    IF ~enabled
    THEN [exc |-> "None", value |-> PyNone, wrote |-> <<>>]
    ELSE IF ~written
    THEN [exc |-> "IOError", value |-> PyNone, wrote |-> <<>>]
    ELSE [exc |-> "None",
          value |-> PyStr(generate_filename(original_filename, job_id, timestamp)),
          wrote |-> generate_filename(original_filename, job_id, timestamp)]

OriginalFilenames ==
    { <<"r", "e", "s", "u", "m", "e", ".", "p", "d", "f">>,
      <<"c", "v">>,
      <<"m", "y", " ", "c", "v", ".", "f", "i", "n", "a", "l", ".", "p", "d", "f">>,
      <<"a", "/", "b", ".", "p", "d", "f">>,
      <<"n", "o", "t", "e", "s", ".", "d", "/", "c", "v">>,
      <<".", ".", "/", ".", ".", "/", "e", "t", "c", "/", "p", "a", "s", "s", "w", "d">>,
      <<".", "b", "a", "s", "h", "r", "c">>,
      <<>>,
      [i \in 1..LongNameLen |-> "a"] \o <<".", "p", "d", "f">> }

JobIds == { PyNone, PyStr(<<"5", "5", "0", "e", "8", "4", "0", "0", "-", "e", "2", "9", "b", "-", "4", "1", "d", "4", "-", "a", "7", "1", "6", "-", "4", "4", "6", "6", "5", "5", "4", "4", "0", "0", "0", "0">>) }
Timestamps == { <<"2", "0", "2", "5", "1", "1", "1", "6", "_", "1", "4", "3", "0", "2", "2">>, <<"2", "0", "2", "6", "0", "1", "0", "1", "_", "0", "0", "0", "0", "0", "0">> }

StorageInit ==
    /\ NothingRunning
    /\ \/ call \in [fn : {"generate_filename"}, original_filename : OriginalFilenames,
                     job_id : JobIds, timestamp : Timestamps, done : {FALSE},
                     out : {<<>>}]
       \/ call \in [fn : {"save_file"}, enabled : BOOLEAN, written : BOOLEAN,
                     original_filename : OriginalFilenames, job_id : JobIds,
                     timestamp : Timestamps, done : {FALSE},
                     out : {[exc |-> "None", value |-> PyNone, wrote |-> <<>>]}]

GenerateFilename ==
    /\ call.fn = "generate_filename"
    /\ ~call.done
    /\ call' = [call EXCEPT !.done = TRUE,
                  !.out = generate_filename(call.original_filename, call.job_id,
                                            call.timestamp)]
    /\ UNCHANGED <<db, req, lastPoll, cache>>

SaveFile ==
    /\ call.fn = "save_file"
    /\ ~call.done
    /\ call' = [call EXCEPT !.done = TRUE,
                  !.out = save_file(call.enabled, call.original_filename, call.job_id,
                                    call.timestamp, call.written)]
    /\ UNCHANGED <<db, req, lastPoll, cache>>

StorageSpec == StorageInit /\ [][GenerateFilename \/ SaveFile]_vars

\* C22 (as stated): save_file raises nothing; with storage disabled or a
\* failed write it returns no path.
C22_SaveFileNeverRaises ==
    (call.fn = "save_file" /\ call.done)
        => /\ call.out.exc = "None"
           /\ (~call.enabled \/ ~call.written) => call.out.value = PyNone

HasSeparator(name) == \E i \in 1..Len(name) : name[i] = "/"

\* C29 (as stated): the name generate_filename returns contains no path
\* separator, so the file save_file writes is a direct child of the storage
\* directory.
C29_GeneratedNameHasNoSeparator ==
    /\ (call.fn = "generate_filename" /\ call.done) => ~HasSeparator(call.out)
    /\ (call.fn = "save_file" /\ call.done) => ~HasSeparator(call.out.wrote)

(***************************************************************************)
(* CustomWordParser.lazy_parse.  What each tier does with the bytes is an  *)
(* input: it raises, or it produces a text (possibly the empty one); the   *)
(* legacy parser may also yield no document at all.                        *)
(***************************************************************************)
TierRaises == [kind |-> "raises"]
TierText(text) == [kind |-> "text", text |-> text]
TierNoDocument == [kind |-> "no document"]

\* _extract_with_python_docx: its own except clause turns a failure into ""
extract_with_python_docx(docx) == IF docx.kind = "raises" THEN "" ELSE docx.text

\* _extract_text_fallback: its own except clause turns a failure into a
\* message
extract_text_fallback(heuristic) ==
    IF heuristic.kind = "raises" THEN "Document text extraction failed" ELSE heuristic.text

\* CustomWordParser.lazy_parse: the documents yielded and the tiers run
WordParser_lazy_parse(docx_available, docx, legacy, heuristic) ==
    LET first == IF docx_available THEN <<"python-docx">> ELSE <<>>
        content == extract_with_python_docx(docx)
    IN  IF docx_available /\ content # ""
        THEN [documents |-> <<content>>, attempted |-> first]
        ELSE IF legacy.kind = "raises"
        THEN [documents |-> <<extract_text_fallback(heuristic)>>,
              attempted |-> first \o <<"MsWordParser", "fallback">>]
        ELSE [documents |-> IF legacy.kind = "text" THEN <<legacy.text>> ELSE <<>>,
              attempted |-> first \o <<"MsWordParser">>]

WordInit ==
    /\ NothingRunning
    /\ call \in [fn : {"CustomWordParser.lazy_parse"},
                  docx_available : BOOLEAN,
                  docx : {TierRaises, TierText(""), TierText("paragraphs and tables")},
                  legacy : {TierRaises, TierNoDocument, TierText(""),
                            TierText("partitioned elements")},
                  heuristic : {TierRaises, TierText("readable parts"),
                               TierText("Failed to extract readable text from document")},
                  done : {FALSE},
                  out : {[documents |-> <<>>, attempted |-> <<>>]}]

WordLazyParse ==
    /\ call.fn = "CustomWordParser.lazy_parse"
    /\ ~call.done
    /\ call' = [call EXCEPT !.done = TRUE,
                  !.out = WordParser_lazy_parse(call.docx_available, call.docx,
                                                call.legacy, call.heuristic)]
    /\ UNCHANGED <<db, req, lastPoll, cache>>

WordSpec == WordInit /\ [][WordLazyParse]_vars

NoText(tier) == tier.kind \in {"raises", "no document"} \/ tier.text = ""

\* C23 (as stated): the tiers run in the order python-docx, MsWordParser,
\* byte-level fallback; a tier runs only if the one before it raised or
\* produced no text; and whenever MsWordParser raises or yields nothing the
\* byte-level fallback runs.
C23_WordCascade ==
    (call.fn = "CustomWordParser.lazy_parse" /\ call.done /\ call.docx_available)
        => /\ call.out.attempted \in {<<"python-docx">>, <<"python-docx", "MsWordParser">>,
                                      <<"python-docx", "MsWordParser", "fallback">>}
           /\ Has(call.out.attempted, "MsWordParser") <=> NoText(call.docx)
           /\ Has(call.out.attempted, "fallback")
                 <=> (NoText(call.docx) /\ NoText(call.legacy))

(***************************************************************************)
(* PyMuPDFParser.lazy_parse.  A PDF is the sequence of its pages; a page   *)
(* either fails to decode (page.get_text raises) or gives its blocks, each *)
(* with its text, its vertical position and its type (0 text, 1 image).    *)
(* The block texts used hold no runs of blanks, so the whitespace clean-up *)
(* of _structure_blocks leaves them as they are.                           *)
(***************************************************************************)
MaxPages == 2

PageRaises == [kind |-> "raises"]
PageBlocks(blocks) == [kind |-> "blocks", blocks |-> blocks]
Block(text, y0, type) == [text |-> text, y0 |-> y0, type |-> type]

\* the text blocks of one page, in document order of the loop
text_blocks(page, page_num) ==
    LET kept == SelectSeq(page.blocks,
                    LAMBDA block : block.type = 0 /\ str_strip(block.text) # <<>>)
    IN  [i \in 1..Len(kept) |->
           [text |-> str_strip(kept[i].text), page |-> page_num, y0 |-> kept[i].y0]]

\* the loop over the pages: the blocks gathered, or the failure of the
\* first page that fails
RECURSIVE gather_blocks(_, _)
gather_blocks(pages, page_num) ==
    IF page_num > Len(pages) THEN [exc |-> "None", blocks |-> <<>>]
    ELSE IF pages[page_num].kind = "raises" THEN [exc |-> "RuntimeError", blocks |-> <<>>]
    ELSE LET rest == gather_blocks(pages, page_num + 1)
         IN  IF rest.exc # "None" THEN rest
             ELSE [exc |-> "None",
                   blocks |-> text_blocks(pages[page_num], page_num) \o rest.blocks]

\* all_blocks.sort(key=(page, y0, x0))
RECURSIVE sorted_blocks(_)
sorted_blocks(blocks) ==
    IF blocks = <<>> THEN <<>>
    ELSE LET first == CHOOSE i \in 1..Len(blocks) :
                        \A j \in 1..Len(blocks) :
                            \/ blocks[i].page < blocks[j].page
                            \/ (blocks[i].page = blocks[j].page /\ blocks[i].y0 < blocks[j].y0)
                            \/ (blocks[i].page = blocks[j].page /\ blocks[i].y0 = blocks[j].y0
                                /\ i <= j)
         IN  <<blocks[first]>>
             \o sorted_blocks([k \in 1..(Len(blocks) - 1) |->
                                 IF k < first THEN blocks[k] ELSE blocks[k + 1]])

\* _structure_blocks: the lines of the text, an empty line between pages
RECURSIVE structure_blocks(_, _)
structure_blocks(blocks, current_page) ==
    IF blocks = <<>> THEN <<>>
    ELSE (IF current_page # 0 /\ current_page # Head(blocks).page THEN <<(<<>>)>> ELSE <<>>)
         \o <<Head(blocks).text>>
         \o structure_blocks(Tail(blocks), Head(blocks).page)

FailedToParsePDF ==
    <<<<"F", "a", "i", "l", "e", "d", " ", "t", "o", " ", "p", "a", "r", "s", "e", " ", "P", "D", "F">>>>

\* PyMuPDFParser.lazy_parse: the exception that leaves it and the lines of
\* the one document it yields
PyMuPDFParser_lazy_parse(opens, pages) ==
    LET gathered == gather_blocks(pages, 1)
    IN  IF ~opens \/ gathered.exc # "None"
        THEN [exc |-> "None", error |-> TRUE, lines |-> FailedToParsePDF]
        ELSE [exc |-> "None", error |-> FALSE,
              lines |-> structure_blocks(sorted_blocks(gathered.blocks), 0)]

PageInputs ==
    { PageRaises,
      PageBlocks(<<>>),
      PageBlocks(<<Block(<<"J", "a", "n", "e", " ", "D", "o", "e">>, 10, 0)>>),
      PageBlocks(<<Block(<<"S", "k", "i", "l", "l", "s">>, 50, 0), Block(<<" ", "W", "o", "r", "k", " ">>, 20, 0)>>),
      PageBlocks(<<Block(<<" ">>, 10, 0), Block(<<"E", "d", "u", "c", "a", "t", "i", "o", "n">>, 30, 0)>>),
      PageBlocks(<<Block(<<"p", "h", "o", "t", "o">>, 5, 1), Block(<<"R", "e", "f", "e", "r", "e", "n", "c", "e", "s">>, 40, 0)>>) }

PdfInit ==
    /\ NothingRunning
    /\ call \in [fn : {"PyMuPDFParser.lazy_parse"}, opens : BOOLEAN,
                  pages : UNION {[1..n -> PageInputs] : n \in 1..MaxPages},
                  done : {FALSE},
                  out : {[exc |-> "None", error |-> FALSE, lines |-> <<>>]}]

PdfLazyParse ==
    /\ call.fn = "PyMuPDFParser.lazy_parse"
    /\ ~call.done
    /\ call' = [call EXCEPT !.done = TRUE,
                  !.out = PyMuPDFParser_lazy_parse(call.opens, call.pages)]
    /\ UNCHANGED <<db, req, lastPoll, cache>>

PdfSpec == PdfInit /\ [][PdfLazyParse]_vars

\* C24 (as stated): when the PDF opens, the extractor raises nothing and the
\* text of every text block of every page that decodes is a line of its
\* output, whether or not another page fails to decode.
C24_OtherPagesSurvive ==
    (call.fn = "PyMuPDFParser.lazy_parse" /\ call.done /\ call.opens)
        => /\ call.out.exc = "None"
           /\ \A p \in 1..Len(call.pages) :
                 call.pages[p].kind = "blocks"
                     => \A b \in 1..Len(call.pages[p].blocks) :
                          (/\ call.pages[p].blocks[b].type = 0
                           /\ str_strip(call.pages[p].blocks[b].text) # <<>>)
                              => Has(call.out.lines, str_strip(call.pages[p].blocks[b].text))

(***************************************************************************)
(* The service as a whole: the asynchronous routes with their background   *)
(* runs and the synchronous routes, side by side on one job store.         *)
(***************************************************************************)
ServiceSpec == Init /\ [][Next \/ NextSync]_vars

\* the text a request asks to parse has fewer than ten characters once
\* trimmed: the raw text, or the text extracted from the file
ShortInput(r) ==
    CASE req[r].kind \in {"parse_text", "parse_text_async"} ->
           req[r].input.text.strip < MIN_TEXT_LENGTH
      [] req[r].kind = "parse_file_async" ->
           req[r].extraction # NoExtraction
           /\ req[r].extraction.content.strip < MIN_TEXT_LENGTH
      [] req[r].kind = "parse_file" ->
           LET out == FileProcessor_extract_text_from_content(
                          req[r].input.content, upload_name(req[r].input))
           IN  /\ req[r].exc.kind # "HTTPException"
               /\ out.exc = NoExc
               /\ out.text.strip < MIN_TEXT_LENGTH
      [] OTHER -> FALSE

LLMCalled(r) == IF IsAsync(r) THEN Has(req[r].steps, "llm") ELSE req[r].llm # NoLLM

TooShortMessages ==
    {<<"Text is too short to parse">>, <<"Extracted text is too short to parse">>}

C26_RunTouchesOnlyItsRecord ==
    [][\A r \in Reqs :
         BackgroundStep(r)
             => \A i \in Ids : i # req[r].job_id => db'[i] = db[i]]_vars

\* two jobs at once: the one submitted second has reached its terminal
\* state while the run of the one submitted first is still under way
C26_Witness ==
    /\ IsAsync(1) /\ IsAsync(2)
    /\ req[1].job_id # req[2].job_id
    /\ req[1].bg \notin {"none", "queued", "returned"}
    /\ Job(1).status = "processing"
    /\ Returned_(2)
    /\ Job(2).status \in Terminal

\* C27 (as stated): after a run ended in success, the job record holds the
\* model the LLM call reported and the token count it reported.
C27_SuccessRecordsModelAndTokens ==
    \A r \in Reqs :
        (Returned_(r) /\ Job(r).status = "success")
            => /\ Job(r).openai_model = req[r].llm.metadata.deployment
               /\ Job(r).tokens_used = req[r].llm.metadata.tokens_used

\* C28 (as stated): whatever the cache holds, extract_text_from_file gives
\* for a file the outcome it gives on an empty cache: the same failure, or
\* the same text and MIME type.
C28_CacheIsTransparent ==
    call.fn = "extract_text_from_file"
        => LET uncached == FileService_extract_text_from_file(<<>>, call.file)
           IN  /\ call.exc = uncached.exc
               /\ call.exc = NoExc
                     => /\ call.result.content = uncached.result.content
                        /\ call.result.mime_type = uncached.result.mime_type

\* C30 (as stated): once a synchronous request has ended with the error
\* response of a non-validation failure, a committed record of that request
\* has status failed and the error message; a validation failure leaves no
\* record.
C30_SyncFailureRecorded ==
    \A r \in Reqs :
        (IsSync(r) /\ req[r].pc = "responded")
            => /\ req[r].exc.kind = "ParserError"
                     => /\ Job(r).status = "failed"
                        /\ Job(r).error_message = Tail(req[r].exc.msg)
               /\ req[r].exc.kind = "ValidationError" => Job(r) = NoRow

====
